---------------------------- MODULE Spec2Model ----------------------------
(***************************************************************************)
(* The leader-side replication queue, PeerMessageQueue, of                 *)
(* src/kudu/consensus/consensus_queue.cc.                                  *)
(*                                                                         *)
(* Spec        every public method is one atomic step (the body that runs  *)
(*             under queue_lock_), with the dump flag off.                 *)
(* SpecThreads the same bodies run by threads that take and release        *)
(*             queue_lock_ the way the methods do, with                    *)
(*             FLAGS_consensus_dump_queue_on_full on.                      *)
(* SpecReports the atomic methods, with a peer free to report any status   *)
(*             and to repeat the response it has just made.                *)
(* SpecRounds  one peer served in request/response rounds until it has     *)
(*             been told of every operation it lacks.                      *)
(* SpecQueues  this queue and the queues of other tablets under the one    *)
(*             parent tracker, constructed and destroyed.                  *)
(* SpecQuorums the atomic methods, with trackers of quorums of one peer    *)
(*             and of all peers.                                           *)
(* SpecPeers   the atomic methods, with both peers tracked at once and     *)
(*             requests rebuilt in the request object of the last one.     *)
(* SpecAcks    peers tracked, operations appended in ascending OpId order  *)
(*             and responses whose watermarks never go down.               *)
(***************************************************************************)
EXTENDS Integers, Sequences, FiniteSets, TLC

VARIABLES
    state_,           \* kQueueOpen / kQueueClosed
    watermarks_,      \* WatermarksMap: tracked uuid -> ConsensusStatusPB
    messages_,        \* MessagesBuffer: OpId -> OperationStatusTracker
    metrics_,         \* the five gauges
    tracker_,         \* consumption of the queue's own (child) MemTracker
    parent_tracker_,  \* consumption of the shared parent MemTracker
    last,             \* the call that has just returned: its name and results
    queue_lock_,      \* simple_spinlock: TRUE while held
    pc,               \* SpecThreads: each thread's position in its call
    call,             \* SpecThreads: each thread's current call
    unlocks,          \* SpecThreads: unlock() calls made by the current call
    snap,             \* SpecThreads: what a thread's dump has read so far
    rounds,           \* SpecRounds: the request/response rounds with one peer
    others,           \* SpecQueues: the other queues that share the parent tracker
    history           \* SpecAcks: what each tracked peer was tracked at and has reported

qvars == <<state_, watermarks_, messages_, metrics_, tracker_, parent_tracker_>>
tvars == <<queue_lock_, pc, call, unlocks, snap, rounds, others, history>>
vars  == <<state_, watermarks_, messages_, metrics_, tracker_, parent_tracker_,
           last, queue_lock_, pc, call, unlocks, snap, rounds, others,
           history>>

---------------------------------------------------------------------------
(* Bounds of the model. *)

MaxTerm  == 1      \* OpId terms are 0..MaxTerm
MaxIndex == 1      \* OpId indexes are 0..MaxIndex
MaxSize  == 2      \* a REPLICATE operation's SpaceUsed() is 1..MaxSize
MaxCommitSize == 1 \* a COMMIT operation's SpaceUsed() is 1..MaxCommitSize
MaxOps   == 2      \* an append is taken while it leaves at most MaxOps entries
MaxOther == 3      \* bytes the other queues of the process charge to the parent
MaxTracked == 1    \* peers tracked at the same time
Majority == 1      \* acks that make a tracker IsDone()

Peers   == {"A", "B"}
Threads == {1, 2}

(* The flags, at small values (bytes). *)
LocalSoft  == 2    \* FLAGS_consensus_entry_cache_size_soft_limit_mb
LocalHard  == 3    \* FLAGS_consensus_entry_cache_size_hard_limit_mb
GlobalSoft == 3    \* FLAGS_global_consensus_entry_cache_size_soft_limit_mb
GlobalHard == 3    \* FLAGS_global_consensus_entry_cache_size_hard_limit_mb
MaxBatch   == 2    \* FLAGS_consensus_max_batch_size_bytes is 1..MaxBatch

---------------------------------------------------------------------------
(* OpId and its order. *)

OpIds == [term : 0..MaxTerm, index : 0..MaxIndex]

\* The initial watermark of a peer that has received nothing; no operation
\* carries it.
MinimumOpId == [term |-> 0, index |-> 0]

OpIdCompare(a, b) ==
    IF a.term # b.term THEN (IF a.term < b.term THEN -1 ELSE 1)
    ELSE IF a.index # b.index THEN (IF a.index < b.index THEN -1 ELSE 1)
    ELSE 0

OpIdLess(a, b) == OpIdCompare(a, b) < 0

\* std::min(a, b, comp): b when comp says b < a, otherwise a.
MinOpId(a, b) == IF OpIdLess(b, a) THEN b ELSE a

\* The keys of a std::map in iteration order.
RECURSIVE SortedIds(_)
SortedIds(S) ==
    IF S = {} THEN <<>>
    ELSE LET lo == CHOOSE x \in S : \A y \in S : ~OpIdLess(y, x)
         IN  <<lo>> \o SortedIds(S \ {lo})

\* messages_.upper_bound(k) as a position of SortedIds (Len + 1 is end()).
UpperBound(ids, k) ==
    LET s == SortedIds(ids)
    IN  IF \E i \in 1..Len(s) : OpIdLess(k, s[i])
        THEN CHOOSE i \in 1..Len(s) :
                 /\ OpIdLess(k, s[i])
                 /\ \A j \in 1..(i - 1) : ~OpIdLess(k, s[j])
        ELSE Len(s) + 1

---------------------------------------------------------------------------
(* OperationStatusTracker: one operation and the peers that acked it. *)

Kinds == {"REPLICATE", "COMMIT"}
NumQuorumPeers == Cardinality(Peers)

\* total_peers is the number of peers the tracker waits for: the queue does
\* not know the quorum, each tracker answers IsAllDone() for its own.
Trackers ==
    {t \in [id : OpIds \ {MinimumOpId}, kind : Kinds,
            size : 1..(IF MaxSize > MaxCommitSize THEN MaxSize ELSE MaxCommitSize),
            acks : SUBSET Peers, total_peers : {NumQuorumPeers}] :
        t.size <= (IF t.kind = "COMMIT" THEN MaxCommitSize ELSE MaxSize)}

IsDone(ost)    == Cardinality(ost.acks) >= Majority
IsAllDone(ost) == Cardinality(ost.acks) >= ost.total_peers
AckPeer(ost, uuid) == [ost EXCEPT !.acks = @ \cup {uuid}]
SpaceUsed(ost) == ost.size
ByteSize(ost)  == ost.size

---------------------------------------------------------------------------
(* MemTracker: the child (tracker_) and its parent (parent_tracker_).      *)
(* A queue value q is a record of the fields a method body works on.       *)

Consume(q, n) == [q EXCEPT !.tracker = @ + n, !.parent = @ + n]
Release(q, n) == [q EXCEPT !.tracker = @ - n, !.parent = @ - n]
AnyLimitExceeded(q) == q.tracker > LocalSoft \/ q.parent > GlobalSoft
SpareCapacity(q) == IF LocalSoft - q.tracker > 0 THEN LocalSoft - q.tracker ELSE 0

Queue == [messages |-> messages_, metrics |-> metrics_,
          tracker |-> tracker_, parent |-> parent_tracker_]

---------------------------------------------------------------------------
(* The state after construction. *)

NoCall == [op |-> "none", status |-> "OK", out |-> <<>>]

ZeroMetrics == [total_num_ops |-> 0, num_all_done_ops |-> 0,
                num_majority_done_ops |-> 0, num_in_progress_ops |-> 0,
                queue_size_bytes |-> 0]

EmptyMap == [x \in {} |-> x]

QueueInit ==
    /\ state_ = "kQueueOpen"
    /\ watermarks_ = EmptyMap
    /\ messages_ = EmptyMap
    /\ metrics_ = ZeroMetrics
    /\ tracker_ = 0
    /\ parent_tracker_ = 0
    /\ last = NoCall

\* A method is called when the previous call has returned to its caller.  A
\* call that hit a failed CHECK/DCHECK (Abort) or that never returns
\* (NoReturn) ends the run.
Running == last.op = "none"

\* The fields of a queue value written back to the variables.
Store(q) ==
    /\ messages_' = q.messages
    /\ metrics_' = q.metrics
    /\ tracker_' = q.tracker
    /\ parent_tracker_' = q.parent

MapPut(m, k, v) == [x \in DOMAIN m \cup {k} |-> IF x = k THEN v ELSE m[x]]
MapErase(m, k)  == [x \in DOMAIN m \ {k} |-> m[x]]

---------------------------------------------------------------------------
(* TrackPeer, UntrackPeer, Close. *)

\* Mutant: TrackPeer leaves the received watermark at the minimum.
InitialStatusReceivedAtMinimum(initial_watermark) ==
    [received |-> MinimumOpId, replicated |-> initial_watermark,
     safe_commit |-> initial_watermark]

InitialStatus(initial_watermark) ==
    [received |-> initial_watermark, replicated |-> initial_watermark,
     safe_commit |-> initial_watermark]

\* Mutant: InsertOrUpdate in place of InsertOrDie, so that tracking a tracked
\* peer again replaces its record.
TrackPeerOverwrites(uuid, initial_watermark, debug) ==
    IF state_ # "kQueueOpen" /\ debug
    THEN /\ last' = [op |-> "TrackPeer", status |-> "Abort",
                     out |-> [uuid |-> uuid]]
         /\ UNCHANGED qvars
    ELSE /\ Cardinality(DOMAIN watermarks_ \cup {uuid}) <= MaxTracked
         /\ watermarks_' = MapPut(watermarks_, uuid, InitialStatus(initial_watermark))
         /\ last' = [op |-> "TrackPeer", status |-> "OK",
                     out |-> [uuid |-> uuid]]
         /\ UNCHANGED <<state_, messages_, metrics_, tracker_, parent_tracker_>>

\* DCHECK_EQ(state_, kQueueOpen) fails in a debug build and is compiled out of
\* a release build; InsertOrDie is a CHECK in every build.
TrackPeerCall(uuid, initial_watermark, debug) ==
    IF (state_ # "kQueueOpen" /\ debug) \/ uuid \in DOMAIN watermarks_
    THEN /\ last' = [op |-> "TrackPeer", status |-> "Abort",
                     out |-> [uuid |-> uuid]]
         /\ UNCHANGED qvars
    ELSE /\ watermarks_' = MapPut(watermarks_, uuid, InitialStatus(initial_watermark))
         /\ last' = [op |-> "TrackPeer", status |-> "OK",
                     out |-> [uuid |-> uuid]]
         /\ UNCHANGED <<state_, messages_, metrics_, tracker_, parent_tracker_>>

\* The call, taken while it leaves at most MaxTracked peers tracked.
TrackPeerBody(uuid, initial_watermark, debug) ==
    /\ TrackPeerCall(uuid, initial_watermark, debug)
    /\ Cardinality(DOMAIN watermarks_') <= MaxTracked

\* Mutant: the peer's acks are taken off the trackers as well.
UntrackPeerStripsAcks(uuid) ==
    /\ watermarks_' = MapErase(watermarks_, uuid)
    /\ messages_' = [id \in DOMAIN messages_ |->
                        [messages_[id] EXCEPT !.acks = @ \ {uuid}]]
    /\ last' = [op |-> "UntrackPeer", status |-> "OK", out |-> [uuid |-> uuid]]
    /\ UNCHANGED <<state_, metrics_, tracker_, parent_tracker_>>

UntrackPeerBody(uuid) ==
    /\ watermarks_' = MapErase(watermarks_, uuid)
    /\ last' = [op |-> "UntrackPeer", status |-> "OK", out |-> [uuid |-> uuid]]
    /\ UNCHANGED <<state_, messages_, metrics_, tracker_, parent_tracker_>>

CloseBody ==
    /\ state_' = "kQueueClosed"
    /\ watermarks_' = EmptyMap
    /\ last' = [op |-> "Close", status |-> "OK", out |-> <<>>]
    /\ UNCHANGED <<messages_, metrics_, tracker_, parent_tracker_>>

---------------------------------------------------------------------------
(* AppendOperation and TrimBufferForMessage. *)

\* Mutant: the limits are compared with the consumption before the operation.
CheckHardLimitsWithoutBytes(q, bytes) ==
    LET local_limit_violated  == q.tracker > LocalHard
        global_limit_violated == q.parent > GlobalHard
    IN  ~local_limit_violated /\ ~global_limit_violated

\* Mutant: the global hard limit is not consulted.
CheckHardLimitsLocalOnly(q, bytes) ==
    LET local_limit_violated == (bytes + q.tracker) > LocalHard
    IN  ~local_limit_violated

CheckHardLimitsNotViolated(q, bytes) ==
    LET local_limit_violated  == (bytes + q.tracker) > LocalHard
        global_limit_violated == (bytes + q.parent) > GlobalHard
    IN  ~local_limit_violated /\ ~global_limit_violated

\* Mutant: the erased entry is not taken out of num_all_done_ops.
EraseHeadKeepsBucket(q) ==
    LET iter == SortedIds(DOMAIN q.messages)[1]
        bytes_to_decrement == SpaceUsed(q.messages[iter])
        m == [q.metrics EXCEPT !.total_num_ops = @ - 1,
                               !.queue_size_bytes = @ - bytes_to_decrement]
    IN  [Release([q EXCEPT !.metrics = m], bytes_to_decrement)
            EXCEPT !.messages = MapErase(q.messages, iter)]

\* Mutant: the erased entry's bytes are not released to the tracker.
EraseHeadNoRelease(q) ==
    LET iter == SortedIds(DOMAIN q.messages)[1]
        bytes_to_decrement == SpaceUsed(q.messages[iter])
        m == [q.metrics EXCEPT !.total_num_ops = @ - 1,
                               !.num_all_done_ops = @ - 1,
                               !.queue_size_bytes = @ - bytes_to_decrement]
    IN  [q EXCEPT !.metrics = m, !.messages = MapErase(q.messages, iter)]

\* One pass of the loop body that erases *iter, the head of the buffer.
EraseHead(q) ==
    LET iter == SortedIds(DOMAIN q.messages)[1]
        bytes_to_decrement == SpaceUsed(q.messages[iter])
        m == [q.metrics EXCEPT !.total_num_ops = @ - 1,
                               !.num_all_done_ops = @ - 1,
                               !.queue_size_bytes = @ - bytes_to_decrement]
    IN  [Release([q EXCEPT !.metrics = m], bytes_to_decrement)
            EXCEPT !.messages = MapErase(q.messages, iter)]

\* Mutant: the head is erased whether or not it is all-done.
RECURSIVE TrimAnyHead(_, _)
TrimAnyHead(q, operation) ==
    LET bytes == SpaceUsed(operation)
    IN  IF ~(bytes > SpareCapacity(q))
        THEN [status |-> "OK", q |-> q, checked |-> FALSE]
        ELSE IF DOMAIN q.messages = {}
        THEN [status |-> IF \/ CheckHardLimitsNotViolated(q, bytes)
                            \/ operation.kind = "COMMIT"
                         THEN "OK" ELSE "ServiceUnavailable",
              q |-> q, checked |-> TRUE]
        ELSE TrimAnyHead(EraseHead(q), operation)

\* Mutant: a COMMIT is held to the hard limits like a REPLICATE.
RECURSIVE TrimNoCommitBypass(_, _)
TrimNoCommitBypass(q, operation) ==
    LET bytes == SpaceUsed(operation)
    IN  IF ~(bytes > SpareCapacity(q))
        THEN [status |-> "OK", q |-> q, checked |-> FALSE]
        ELSE IF \/ DOMAIN q.messages = {}
                \/ ~IsAllDone(q.messages[SortedIds(DOMAIN q.messages)[1]])
        THEN [status |-> IF CheckHardLimitsNotViolated(q, bytes)
                         THEN "OK" ELSE "ServiceUnavailable",
              q |-> q, checked |-> TRUE]
        ELSE TrimNoCommitBypass(EraseHead(q), operation)

\* Mutant: every all-done head entry is erased, whether or not the operation
\* already fits.
RECURSIVE TrimWholeHead(_, _)
TrimWholeHead(q, operation) ==
    LET bytes == SpaceUsed(operation)
    IN  IF /\ DOMAIN q.messages # {}
           /\ IsAllDone(q.messages[SortedIds(DOMAIN q.messages)[1]])
        THEN TrimWholeHead(EraseHead(q), operation)
        ELSE IF ~(bytes > SpareCapacity(q))
        THEN [status |-> "OK", q |-> q, checked |-> FALSE]
        ELSE [status |-> IF \/ CheckHardLimitsNotViolated(q, bytes)
                            \/ operation.kind = "COMMIT"
                         THEN "OK" ELSE "ServiceUnavailable",
              q |-> q, checked |-> TRUE]

\* The result: the status, the queue as the loop left it, and whether the
\* hard limits were consulted.
RECURSIVE TrimBufferForMessage(_, _)
TrimBufferForMessage(q, operation) ==
    LET bytes == SpaceUsed(operation)
    IN  IF ~(bytes > SpareCapacity(q))
        THEN [status |-> "OK", q |-> q, checked |-> FALSE]
        ELSE IF \/ DOMAIN q.messages = {}
                \/ ~IsAllDone(q.messages[SortedIds(DOMAIN q.messages)[1]])
        THEN [status |-> IF \/ CheckHardLimitsNotViolated(q, bytes)
                            \/ operation.kind = "COMMIT"
                         THEN "OK" ELSE "ServiceUnavailable",
              q |-> q, checked |-> TRUE]
        ELSE TrimBufferForMessage(EraseHead(q), operation)

\* Lines 168-169: the operation's bytes go to the gauge and to the tracker.
Charge(q, status) ==
    Consume([q EXCEPT !.metrics.queue_size_bytes = @ + SpaceUsed(status)],
            SpaceUsed(status))

\* Mutant: the entry goes under the index of its OpId alone, so that
\* operations of different terms share a key.
InsertAndCountUnderIndex(q, status) ==
    [q EXCEPT !.metrics = [q.metrics EXCEPT !.total_num_ops = @ + 1],
              !.messages = MapPut(q.messages,
                                  [term |-> 0, index |-> status.id.index], status)]

\* Mutant: every new entry is counted as in progress, acked or not.
InsertAndCountInProgress(q, status) ==
    [q EXCEPT !.metrics = [q.metrics EXCEPT !.total_num_ops = @ + 1,
                                            !.num_in_progress_ops = @ + 1],
              !.messages = MapPut(q.messages, status.id, status)]

\* Lines 175-187: the tracker goes into the buffer and is counted in
\* total_num_ops and in one bucket.
InsertAndCount(q, status) ==
    LET m1 == [q.metrics EXCEPT !.total_num_ops = @ + 1]
        m2 == IF IsAllDone(status)
              THEN [m1 EXCEPT !.num_all_done_ops = @ + 1]
              ELSE IF IsDone(status)
              THEN [m1 EXCEPT !.num_majority_done_ops = @ + 1]
              ELSE [m1 EXCEPT !.num_in_progress_ops = @ + 1]
    IN  [q EXCEPT !.metrics = m2,
                  !.messages = MapPut(q.messages, status.id, status)]

\* Lines 168-187: charge the operation, insert it, count it in one bucket.
Insert(q, status) == InsertAndCount(Charge(q, status), status)

\* InsertOrDieNoPrint is a CHECK: a duplicate OpId ends the process (Abort),
\* and the queue is then shown as the call found it.
\* What the call does to the queue: the status, the queue afterwards, and
\* the path taken (a soft limit was exceeded at entry, the hard limits were
\* consulted, entries were erased).
AppendResult(q, status) ==
    LET soft == AnyLimitExceeded(q)
        s == IF soft THEN TrimBufferForMessage(q, status)
             ELSE [status |-> "OK", q |-> q, checked |-> FALSE]
        path == [checked |-> s.checked, soft |-> soft,
                 trimmed |-> DOMAIN s.q.messages # DOMAIN q.messages]
    IN  IF s.status # "OK"
        THEN [status |-> s.status, q |-> s.q, path |-> path]
        ELSE IF status.id \in DOMAIN s.q.messages
        THEN [status |-> "Abort", q |-> q, path |-> path]
        ELSE [status |-> "OK", q |-> Insert(s.q, status), path |-> path]

AppendOperationBody(status, debug) ==
    IF state_ # "kQueueOpen" /\ debug
    THEN /\ last' = [op |-> "AppendOperation", status |-> "Abort", out |-> <<>>]
         /\ UNCHANGED qvars
    ELSE LET r == AppendResult(Queue, status)
         IN  /\ Cardinality(DOMAIN r.q.messages) <= MaxOps
             /\ Store(r.q)
             /\ last' = [op |-> "AppendOperation", status |-> r.status,
                         out |-> [id |-> status.id, kind |-> status.kind,
                                  size |-> SpaceUsed(status),
                                  soft |-> r.path.soft,
                                  checked |-> r.path.checked,
                                  trimmed |-> r.path.trimmed]]
             /\ UNCHANGED <<state_, watermarks_>>

---------------------------------------------------------------------------
(* RequestForPeer. *)

RECURSIVE RequestByteSize(_, _)
RequestByteSize(msgs, ops) ==
    IF ops = <<>> THEN 0
    ELSE ByteSize(msgs[Head(ops)]) + RequestByteSize(msgs, Tail(ops))

\* Mutant: the operation that overflows the batch is released even when it
\* is the only one.
RECURSIVE AddOperationsAlwaysRelease(_, _, _, _, _)
AddOperationsAlwaysRelease(msgs, s, iter, ops, max_batch) ==
    IF iter > Len(s) THEN ops
    ELSE LET added == Append(ops, s[iter])
         IN  IF RequestByteSize(msgs, added) > max_batch
             THEN ops
             ELSE AddOperationsAlwaysRelease(msgs, s, iter + 1, added, max_batch)

\* The loop of lines 204-222 from position iter of the sorted keys s, with
\* ops the operations added so far.
\* max_batch is FLAGS_consensus_max_batch_size_bytes as the call reads it.
RECURSIVE AddOperations(_, _, _, _, _)
AddOperations(msgs, s, iter, ops, max_batch) ==
    IF iter > Len(s) THEN ops
    ELSE LET added == Append(ops, s[iter])
         IN  IF RequestByteSize(msgs, added) > max_batch
             THEN (IF Len(added) > 1 THEN ops ELSE added)
             ELSE AddOperations(msgs, s, iter + 1, added, max_batch)

\* Mutant: lower_bound instead of upper_bound, so that the entry at the
\* watermark is sent again.
RequestOpsLowerBound(msgs, current_status, max_batch) ==
    LET s == SortedIds(DOMAIN msgs)
        at == {i \in 1..Len(s) : ~OpIdLess(s[i], current_status.received)}
        iter == IF at = {} THEN Len(s) + 1
                ELSE CHOOSE i \in at : \A j \in at : i <= j
    IN  AddOperations(msgs, s, iter, <<>>, max_batch)

\* Mutant: the batch starts at the first entry of the buffer, whatever the
\* peer has received.
RequestOpsFromBegin(msgs, current_status, max_batch) ==
    AddOperations(msgs, SortedIds(DOMAIN msgs), 1, <<>>, max_batch)

RequestOps(msgs, current_status, max_batch) ==
    AddOperations(msgs, SortedIds(DOMAIN msgs),
                  UpperBound(DOMAIN msgs, current_status.received), <<>>, max_batch)

\* Mutant: the operations of the previous request stay in the list.
ExtractNothing(ops, start, num) == ops

\* RepeatedPtrField::ExtractSubrange(start, num, NULL): the list without its
\* num elements from position start (counted from 0); the elements themselves
\* are not deleted.
ExtractSubrange(ops, start, num) ==
    SubSeq(ops, 1, start) \o SubSeq(ops, start + num + 1, Len(ops))

\* request is the ops list the caller's request holds when the call starts
\* (the operations of its previous batch); line 195 clears it before the lock
\* is taken.  FindOrDie is a CHECK in every build.
RequestForPeerBody(uuid, debug, max_batch, request) ==
    /\ IF (state_ # "kQueueOpen" /\ debug) \/ uuid \notin DOMAIN watermarks_
       THEN last' = [op |-> "RequestForPeer", status |-> "Abort",
                     out |-> <<>>]
       ELSE last' = [op |-> "RequestForPeer", status |-> "OK",
                     out |-> [uuid |-> uuid, max_batch |-> max_batch,
                              request |-> request,
                              ops |-> ExtractSubrange(request, 0, Len(request))
                                      \o RequestOps(messages_, watermarks_[uuid],
                                                    max_batch)]]
    /\ UNCHANGED qvars

---------------------------------------------------------------------------
(* ResponseFromPeer. *)

Statuses == [received : OpIds, replicated : OpIds, safe_commit : OpIds]

\* Mutant: an entry above the stored watermark is acked whatever the peer
\* reports.
VisitEntryAcksAbove(q, id, uuid, current_status, new_status) ==
    LET ost == q.messages[id]
        was_done == IsDone(ost)
        was_all_done == IsAllDone(ost)
        acked ==
            IF /\ ost.kind = "COMMIT"
               /\ OpIdCompare(id, current_status.safe_commit) > 0
            THEN AckPeer(ost, uuid)
            ELSE IF /\ ost.kind = "REPLICATE"
                    /\ OpIdCompare(id, current_status.replicated) > 0
            THEN AckPeer(ost, uuid)
            ELSE ost
        m1 == IF IsAllDone(acked) /\ ~was_all_done
              THEN [q.metrics EXCEPT !.num_all_done_ops = @ + 1,
                                     !.num_majority_done_ops = @ - 1]
              ELSE q.metrics
        m2 == IF IsDone(acked) /\ ~was_done
              THEN [m1 EXCEPT !.num_majority_done_ops = @ + 1,
                              !.num_in_progress_ops = @ - 1]
              ELSE m1
    IN  [q EXCEPT !.messages = [@ EXCEPT ![id] = acked], !.metrics = m2]

\* Mutant: an entry that becomes all-done stays counted as majority-done.
VisitEntryNoDecrement(q, id, uuid, current_status, new_status) ==
    LET ost == q.messages[id]
        was_done == IsDone(ost)
        was_all_done == IsAllDone(ost)
        acked ==
            IF /\ ost.kind = "COMMIT"
               /\ OpIdCompare(id, current_status.safe_commit) > 0
               /\ OpIdCompare(id, new_status.safe_commit) <= 0
            THEN AckPeer(ost, uuid)
            ELSE IF /\ ost.kind = "REPLICATE"
                    /\ OpIdCompare(id, current_status.replicated) > 0
                    /\ OpIdCompare(id, new_status.replicated) <= 0
            THEN AckPeer(ost, uuid)
            ELSE ost
        m1 == IF IsAllDone(acked) /\ ~was_all_done
              THEN [q.metrics EXCEPT !.num_all_done_ops = @ + 1]
              ELSE q.metrics
        m2 == IF IsDone(acked) /\ ~was_done
              THEN [m1 EXCEPT !.num_majority_done_ops = @ + 1,
                              !.num_in_progress_ops = @ - 1]
              ELSE m1
    IN  [q EXCEPT !.messages = [@ EXCEPT ![id] = acked], !.metrics = m2]

\* Mutant: a REPLICATE at the reported replicated watermark itself is not
\* acked.
VisitEntryBelowWatermark(q, id, uuid, current_status, new_status) ==
    LET ost == q.messages[id]
        was_done == IsDone(ost)
        was_all_done == IsAllDone(ost)
        acked ==
            IF /\ ost.kind = "COMMIT"
               /\ OpIdCompare(id, current_status.safe_commit) > 0
               /\ OpIdCompare(id, new_status.safe_commit) <= 0
            THEN AckPeer(ost, uuid)
            ELSE IF /\ ost.kind = "REPLICATE"
                    /\ OpIdCompare(id, current_status.replicated) > 0
                    /\ OpIdCompare(id, new_status.replicated) < 0
            THEN AckPeer(ost, uuid)
            ELSE ost
        m1 == IF IsAllDone(acked) /\ ~was_all_done
              THEN [q.metrics EXCEPT !.num_all_done_ops = @ + 1,
                                     !.num_majority_done_ops = @ - 1]
              ELSE q.metrics
        m2 == IF IsDone(acked) /\ ~was_done
              THEN [m1 EXCEPT !.num_majority_done_ops = @ + 1,
                              !.num_in_progress_ops = @ - 1]
              ELSE m1
    IN  [q EXCEPT !.messages = [@ EXCEPT ![id] = acked], !.metrics = m2]

\* Lines 268-291 for one entry.
VisitEntry(q, id, uuid, current_status, new_status) ==
    LET ost == q.messages[id]
        was_done == IsDone(ost)
        was_all_done == IsAllDone(ost)
        acked ==
            IF /\ ost.kind = "COMMIT"
               /\ OpIdCompare(id, current_status.safe_commit) > 0
               /\ OpIdCompare(id, new_status.safe_commit) <= 0
            THEN AckPeer(ost, uuid)
            ELSE IF /\ ost.kind = "REPLICATE"
                    /\ OpIdCompare(id, current_status.replicated) > 0
                    /\ OpIdCompare(id, new_status.replicated) <= 0
            THEN AckPeer(ost, uuid)
            ELSE ost
        m1 == IF IsAllDone(acked) /\ ~was_all_done
              THEN [q.metrics EXCEPT !.num_all_done_ops = @ + 1,
                                     !.num_majority_done_ops = @ - 1]
              ELSE q.metrics
        m2 == IF IsDone(acked) /\ ~was_done
              THEN [m1 EXCEPT !.num_majority_done_ops = @ + 1,
                              !.num_in_progress_ops = @ - 1]
              ELSE m1
    IN  [q EXCEPT !.messages = [@ EXCEPT ![id] = acked], !.metrics = m2]

RECURSIVE VisitAll(_, _, _, _, _)
VisitAll(q, ids, uuid, current_status, new_status) ==
    IF ids = <<>> THEN q
    ELSE VisitAll(VisitEntry(q, Head(ids), uuid, current_status, new_status),
                  Tail(ids), uuid, current_status, new_status)

\* The positions the loop of line 267 visits.  iter starts at
\* upper_bound(lowest watermark) and stops when it equals end_iter.  When
\* end_iter lies before iter, iter runs to end() and is incremented there,
\* which is undefined: the tree's header leads on to position wrap of the
\* rightmost subtree, from where the loop reaches end_iter (wrap <= end_iter)
\* or never does (wrap = 0: the call spins with the lock held).
VisitedPositions(n, iter, end_iter, wrap) ==
    IF iter <= end_iter THEN [i \in 1..(end_iter - iter) |-> iter + i - 1]
    ELSE [i \in 1..(n + 1 - iter) |-> iter + i - 1]
         \o [i \in 1..(end_iter - wrap) |-> wrap + i - 1]

\* Mutant: a watermark that would go down keeps its stored value.
CopyFromKeepsHigher(current_status, new_status) ==
    [w \in DOMAIN new_status |->
        IF OpIdLess(new_status[w], current_status[w])
        THEN current_status[w] ELSE new_status[w]]

\* Lines 294-298: current_status->CopyFrom(new_status); what the record holds
\* afterwards.
CopyFrom(current_status, new_status) == new_status

\* Mutant: only a response from an untracked peer is disregarded.
DisregardedUntrackedOnly(uuid) == uuid \notin DOMAIN watermarks_

\* Lines 239-240: FindPtrOrNull found nothing, or the queue is closed.
Disregarded(uuid) ==
    LET current_status_found == uuid \in DOMAIN watermarks_
    IN  state_ = "kQueueClosed" \/ ~current_status_found

ResponseFromPeerBody(uuid, new_status, wrap) ==
    IF Disregarded(uuid)
    THEN /\ wrap = 0
         /\ last' = [op |-> "ResponseFromPeer", status |-> "OK",
                     out |-> [uuid |-> uuid, more_pending |-> FALSE,
                              disregarded |-> TRUE]]
         /\ UNCHANGED qvars
    ELSE LET current_status == watermarks_[uuid]
             lowest_watermark == MinOpId(current_status.replicated,
                                         current_status.safe_commit)
             s == SortedIds(DOMAIN messages_)
             iter == UpperBound(DOMAIN messages_, lowest_watermark)
             end_iter == UpperBound(DOMAIN messages_, new_status.received)
             pos == VisitedPositions(Len(s), iter, end_iter, wrap)
         IN  /\ IF iter <= end_iter THEN wrap = 0 ELSE wrap \in 0..end_iter
             /\ IF iter > end_iter /\ wrap = 0
                THEN /\ last' = [op |-> "ResponseFromPeer", status |-> "NoReturn",
                                 out |-> [uuid |-> uuid]]
                     /\ UNCHANGED qvars
                ELSE /\ \E q \in {VisitAll(Queue, [i \in 1..Len(pos) |-> s[pos[i]]],
                                          uuid, current_status, new_status)} :
                            Store(q)
                     /\ watermarks_' =
                            [watermarks_ EXCEPT
                                ![uuid] = CopyFrom(current_status, new_status)]
                     /\ last' = [op |-> "ResponseFromPeer", status |-> "OK",
                                 out |-> [uuid |-> uuid,
                                          new_status |-> new_status,
                                          more_pending |-> (end_iter # Len(s) + 1),
                                          disregarded |-> FALSE]]
                     /\ UNCHANGED state_

---------------------------------------------------------------------------
(* GetOperationStatus. *)

\* What the caller's scoped_refptr may hold before the call: nothing, or a
\* tracker of the same OpId it was given earlier.
StatusBefore(op_id) ==
    {<<>>, <<[id |-> op_id, kind |-> "REPLICATE", size |-> 1, acks |-> Peers,
              total_peers |-> NumQuorumPeers]>>}

\* Mutant: the output is reset when the operation is not found.
GetOperationStatusResets(op_id, status) ==
    /\ IF op_id \notin DOMAIN messages_
       THEN last' = [op |-> "GetOperationStatus", status |-> "NotFound",
                     out |-> [op_id |-> op_id, before |-> status,
                              status |-> <<>>]]
       ELSE last' = [op |-> "GetOperationStatus", status |-> "OK",
                     out |-> [op_id |-> op_id, before |-> status,
                              status |-> <<messages_[op_id]>>]]
    /\ UNCHANGED qvars

\* status is what *status holds when the call starts; out.status is what it
\* holds when the call returns.
GetOperationStatusBody(op_id, status) ==
    /\ IF op_id \notin DOMAIN messages_
       THEN last' = [op |-> "GetOperationStatus", status |-> "NotFound",
                     out |-> [op_id |-> op_id, before |-> status,
                              status |-> status]]
       ELSE last' = [op |-> "GetOperationStatus", status |-> "OK",
                     out |-> [op_id |-> op_id, before |-> status,
                              status |-> <<messages_[op_id]>>]]
    /\ UNCHANGED qvars

---------------------------------------------------------------------------
(* The other queues of the process, which charge the same parent tracker.  *)
(* Their charges are taken between the calls of this queue.                 *)

OtherQueues(delta) ==
    /\ parent_tracker_ - tracker_ + delta \in 0..MaxOther
    /\ parent_tracker_' = parent_tracker_ + delta
    /\ UNCHANGED <<state_, watermarks_, messages_, metrics_, tracker_, last>>

---------------------------------------------------------------------------
(* Spec: every public method is one step. *)

ThreadsIdle ==
    /\ queue_lock_ = FALSE
    /\ pc = [t \in Threads |-> "idle"]
    /\ call = [t \in Threads |-> NoCall]
    /\ unlocks = [t \in Threads |-> 0]
    /\ snap = [t \in Threads |-> <<>>]

\* No round has started.
NoRounds == [phase |-> "setup"]

\* The other queues of the process, by the prefix of their metric context;
\* none has been constructed.
OtherQueueIds == {"tablet-2", "tablet-3"}
NoOthers == [o \in OtherQueueIds |-> [state |-> "none", tracker |-> 0]]

\* SpecAcks: nobody is tracked yet and nothing has been appended.
NoHistory == [initial |-> EmptyMap, sound |-> EmptyMap, newest |-> MinimumOpId]

Init ==
    /\ QueueInit /\ ThreadsIdle
    /\ rounds = NoRounds /\ others = NoOthers /\ history = NoHistory

\* Whether DCHECKs are compiled in matters only once the queue is closed.
\* The watermarks peers report: a peer has received what it has replicated,
\* and has committed all of it or nothing yet.
ResponseInputs ==
    {w \in Statuses : /\ w.received = w.replicated
                      /\ w.safe_commit \in {w.replicated, MinimumOpId}}

Builds == IF state_ = "kQueueOpen" THEN {FALSE} ELSE BOOLEAN

TrackPeer ==
    /\ Running
    /\ \E uuid \in Peers, initial_watermark \in OpIds, debug \in Builds :
           TrackPeerBody(uuid, initial_watermark, debug)
    /\ UNCHANGED tvars

UntrackPeer ==
    /\ Running
    /\ \E uuid \in Peers : UntrackPeerBody(uuid)
    /\ UNCHANGED tvars

AppendOperation ==
    /\ Running
    /\ \E status \in Trackers, debug \in Builds : AppendOperationBody(status, debug)
    /\ UNCHANGED tvars

RequestForPeer ==
    /\ Running
    /\ \E uuid \in Peers, debug \in Builds, max_batch \in 1..MaxBatch :
           RequestForPeerBody(uuid, debug, max_batch, <<>>)
    /\ UNCHANGED tvars

ResponseFromPeer ==
    /\ Running
    /\ \E uuid \in Peers, new_status \in ResponseInputs, wrap \in 0..(MaxOps + 1) :
           ResponseFromPeerBody(uuid, new_status, wrap)
    /\ UNCHANGED tvars

GetOperationStatus ==
    /\ Running
    /\ \E op_id \in OpIds \ {MinimumOpId} :
           \E status \in StatusBefore(op_id) : GetOperationStatusBody(op_id, status)
    /\ UNCHANGED tvars

Close ==
    /\ Running
    /\ CloseBody
    /\ UNCHANGED tvars

OtherQueuesStep ==
    /\ Running
    /\ \E delta \in {-MaxOther, MaxOther} : OtherQueues(delta)
    /\ UNCHANGED tvars

\* The call has returned and its caller has taken the result.
Return ==
    /\ last.op # "none"
    /\ last.status \notin {"Abort", "NoReturn"}
    /\ last' = NoCall
    /\ UNCHANGED <<qvars, tvars>>

Next ==
    \/ TrackPeer
    \/ UntrackPeer
    \/ AppendOperation
    \/ RequestForPeer
    \/ ResponseFromPeer
    \/ GetOperationStatus
    \/ Close
    \/ OtherQueuesStep
    \/ Return

Spec == Init /\ [][Next]_vars

---------------------------------------------------------------------------
(* SpecThreads: threads calling AppendOperation and DumpToStrings, each     *)
(* taking and releasing queue_lock_ where the method does.                  *)

\* FLAGS_consensus_dump_queue_on_full (or VLOG_IS_ON(2)).
consensus_dump_queue_on_full == TRUE

ThreadCalls ==
    [op : {"AppendOperation"},
     status : {t \in Trackers : /\ t.acks = {}
                                /\ \/ t.kind = "REPLICATE" /\ t.size = MaxSize
                                   \/ t.kind = "COMMIT"}]
    \cup [op : {"DumpToStrings", "ToString"}, status : {<<>>}]

\* A failed CHECK in one thread ends the process.
Alive == last.status # "Abort"

\* A thread enters a public method.
ThreadCall(t) ==
    /\ Alive
    /\ pc[t] = "idle"
    /\ \E c \in ThreadCalls : call' = [call EXCEPT ![t] = c]
    /\ pc' = [pc EXCEPT ![t] = "lock"]
    /\ unlocks' = [unlocks EXCEPT ![t] = 0]
    /\ snap' = [snap EXCEPT ![t] = <<>>]
    /\ UNCHANGED <<history, others, rounds, qvars, last, queue_lock_>>

\* boost::lock_guard<simple_spinlock> lock(queue_lock_): spins until free.
ThreadLock(t) ==
    /\ Alive
    /\ pc[t] = "lock"
    /\ queue_lock_ = FALSE
    /\ queue_lock_' = TRUE
    /\ pc' = [pc EXCEPT ![t] = CASE call[t].op = "DumpToStrings" -> "dump"
                                  [] call[t].op = "ToString" -> "tostring"
                                  [] OTHER -> "body"]
    /\ UNCHANGED <<history, others, rounds, qvars, last, call, unlocks, snap>>

\* What an AppendOperation of a thread reports when it ends.
ThreadAppendEnds(t, status) ==
    [op |-> "AppendOperation", status |-> status,
     out |-> [id |-> call[t].status.id, kind |-> call[t].status.kind,
              size |-> SpaceUsed(call[t].status)]]

\* Lines 136-169 of AppendOperation: the soft-limit gate and the trimming;
\* a failed trim with the dump enabled goes on to line 148, a trim that
\* lets the operation in goes on to charge its bytes.
ThreadAppendTrim(t) ==
    /\ Alive
    /\ pc[t] = "body"
    /\ LET s == IF AnyLimitExceeded(Queue)
                THEN TrimBufferForMessage(Queue, call[t].status)
                ELSE [status |-> "OK", q |-> Queue, checked |-> FALSE]
       IN  IF s.status # "OK"
           THEN /\ Store(s.q)
                /\ last' = ThreadAppendEnds(t, s.status)
                /\ pc' = [pc EXCEPT ![t] = IF consensus_dump_queue_on_full
                                           THEN "unlock" ELSE "return"]
           ELSE /\ Store(Charge(s.q, call[t].status))
                /\ last' = last
                /\ pc' = [pc EXCEPT ![t] = "insert"]
    /\ UNCHANGED <<history, others, rounds, state_, watermarks_, queue_lock_, call, unlocks, snap>>

\* Lines 175-189 of AppendOperation; InsertOrDieNoPrint is a CHECK.
ThreadAppendInsert(t) ==
    /\ Alive
    /\ pc[t] = "insert"
    /\ IF call[t].status.id \in DOMAIN messages_
       THEN /\ last' = ThreadAppendEnds(t, "Abort")
            /\ UNCHANGED <<messages_, metrics_, tracker_, parent_tracker_, pc>>
       ELSE /\ Store(InsertAndCount(Queue, call[t].status))
            /\ last' = ThreadAppendEnds(t, "OK")
            /\ pc' = [pc EXCEPT ![t] = "return"]
    /\ UNCHANGED <<history, others, rounds, state_, watermarks_, queue_lock_, call, unlocks, snap>>

\* Line 148: queue_lock_.unlock().
ThreadUnlockForDump(t) ==
    /\ Alive
    /\ pc[t] = "unlock"
    /\ queue_lock_' = FALSE
    /\ unlocks' = [unlocks EXCEPT ![t] = @ + 1]
    /\ pc' = [pc EXCEPT ![t] = "dump"]
    /\ UNCHANGED <<history, others, rounds, qvars, last, call, snap>>

\* DumpToStringsUnlocked reads the watermarks and the messages.
ThreadDump(t) ==
    /\ Alive
    /\ pc[t] = "dump"
    /\ snap' = [snap EXCEPT ![t] = [watermarks |-> watermarks_, messages |-> messages_]]
    /\ pc' = [pc EXCEPT ![t] = "return"]
    /\ UNCHANGED <<history, others, rounds, qvars, last, queue_lock_, call, unlocks>>

\* ToStringUnlocked reads the five gauges.
ThreadToString(t) ==
    /\ Alive
    /\ pc[t] = "tostring"
    /\ snap' = [snap EXCEPT ![t] = [metrics |-> metrics_]]
    /\ pc' = [pc EXCEPT ![t] = "return"]
    /\ UNCHANGED <<history, others, rounds, qvars, last, queue_lock_, call, unlocks>>

\* The method returns: the lock_guard's destructor calls queue_lock_.unlock().
ThreadReturn(t) ==
    /\ Alive
    /\ pc[t] = "return"
    /\ queue_lock_' = FALSE
    /\ unlocks' = [unlocks EXCEPT ![t] = @ + 1]
    /\ pc' = [pc EXCEPT ![t] = "idle"]
    /\ UNCHANGED <<history, others, rounds, qvars, last, call, snap>>

NextThreads ==
    \E t \in Threads :
        \/ ThreadCall(t)
        \/ ThreadLock(t)
        \/ ThreadAppendTrim(t)
        \/ ThreadAppendInsert(t)
        \/ ThreadUnlockForDump(t)
        \/ ThreadDump(t)
        \/ ThreadToString(t)
        \/ ThreadReturn(t)

SpecThreads == Init /\ [][NextThreads]_vars

---------------------------------------------------------------------------
(* SpecReports: peers that report any triple of watermarks, and a caller    *)
(* that may hand the same response to the queue twice in a row.             *)

\* Operations as the leader creates them: one byte, acked by nobody.
NewOperations == {t \in Trackers : t.acks = {} /\ SpaceUsed(t) = 1}

AppendNewOperation ==
    /\ Running
    /\ \E status \in NewOperations : AppendOperationBody(status, FALSE)
    /\ UNCHANGED tvars

ResponseFromPeerAnyStatus ==
    /\ Running
    /\ \E uuid \in Peers, new_status \in Statuses, wrap \in 0..(MaxOps + 1) :
           ResponseFromPeerBody(uuid, new_status, wrap)
    /\ UNCHANGED tvars

\* The response that has just been processed is handed to the queue again.
ResponseFromPeerAgain ==
    /\ last.op = "ResponseFromPeer"
    /\ last.status = "OK"
    /\ ~last.out.disregarded
    /\ \E wrap \in 0..(MaxOps + 1) :
           ResponseFromPeerBody(last.out.uuid, last.out.new_status, wrap)
    /\ UNCHANGED tvars

NextReports ==
    \/ TrackPeer
    \/ AppendNewOperation
    \/ ResponseFromPeerAnyStatus
    \/ ResponseFromPeerAgain
    \/ Return

SpecReports == Init /\ [][NextReports]_vars

---------------------------------------------------------------------------
(* SpecRounds: a queue is filled, then one tracked peer is served by       *)
(* rounds of RequestForPeer and ResponseFromPeer with no further append.   *)
(* The peer acknowledges the whole batch it was sent.                      *)

\* Filling the queue: the calls of Spec, with operations nobody has acked.
SetupTrackPeer == rounds.phase = "setup" /\ TrackPeer

SetupAppendOperation ==
    /\ rounds.phase = "setup"
    /\ Running
    /\ \E status \in {t \in Trackers : t.acks = {}} :
           AppendOperationBody(status, FALSE)
    /\ UNCHANGED tvars

SetupReturn == rounds.phase = "setup" /\ Return

\* The entries above the peer's received watermark, which the rounds are to
\* send, and the cap that the rounds run under.
StartRounds ==
    /\ rounds.phase = "setup"
    /\ Running
    /\ state_ = "kQueueOpen"
    /\ \E uuid \in DOMAIN watermarks_, max_batch \in 1..MaxBatch :
           rounds' = [phase |-> "request", uuid |-> uuid, max_batch |-> max_batch,
                      goal |-> SortedIds({id \in DOMAIN messages_ :
                                  OpIdLess(watermarks_[uuid].received, id)}),
                      sent |-> <<>>]
    /\ UNCHANGED <<qvars, last, queue_lock_, pc, call, unlocks, snap, others, history>>

\* The leader builds the next request for the peer and sends it.
RoundRequest ==
    /\ rounds.phase = "request"
    /\ RequestForPeerBody(rounds.uuid, FALSE, rounds.max_batch, <<>>)
    /\ rounds' = [rounds EXCEPT !.phase = "response",
                                !.sent = @ \o last'.out.ops]
    /\ UNCHANGED <<queue_lock_, pc, call, unlocks, snap, others, history>>

\* What the peer answers: the OpId of the last operation of the batch as all
\* three watermarks, or what it reported before when the batch was empty.
PeerAnswer(ops, reported) ==
    IF ops = <<>> THEN reported ELSE InitialStatus(ops[Len(ops)])

\* The peer's answer reaches the queue; the rounds go on while it says that
\* more is pending.
RoundResponse ==
    /\ rounds.phase = "response"
    /\ \E wrap \in 0..(MaxOps + 1) :
           ResponseFromPeerBody(rounds.uuid,
                                PeerAnswer(last.out.ops, watermarks_[rounds.uuid]),
                                wrap)
    /\ rounds' = [rounds EXCEPT
                     !.phase = IF last'.status = "OK" /\ last'.out.more_pending
                               THEN "request" ELSE "done"]
    /\ UNCHANGED <<queue_lock_, pc, call, unlocks, snap, others, history>>

NextRounds ==
    \/ SetupTrackPeer
    \/ SetupAppendOperation
    \/ SetupReturn
    \/ StartRounds
    \/ RoundRequest
    \/ RoundResponse

\* Each round is taken in the end: the heartbeats of the peer's proxy keep
\* calling RequestForPeer, and a peer that is sent a request answers it.
SpecRounds ==
    /\ Init
    /\ [][NextRounds]_vars
    /\ WF_vars(RoundRequest)
    /\ WF_vars(RoundResponse)

---------------------------------------------------------------------------
(* SpecQueues: this queue and the queues of other tablets, all constructed  *)
(* with kConsensusQueueParentTrackerId, so that FindOrCreateTracker hands   *)
(* each of them the one parent tracker.  Every queue has its own lock, so   *)
(* the steps of different queues interleave freely.                         *)

\* The consumption of the other queue's child tracker while that queue (and
\* with it its tracker_) exists.
ChildConsumption(o) ==
    IF others[o].state = "live" THEN others[o].tracker ELSE 0

RECURSIVE SumChildConsumption(_)
SumChildConsumption(S) ==
    IF S = {} THEN 0
    ELSE LET o == CHOOSE x \in S : TRUE
         IN  ChildConsumption(o) + SumChildConsumption(S \ {o})

\* The constructor: the parent is found under its id, and a child tracker
\* with no consumption is created under it.
ConstructQueue ==
    /\ \E o \in OtherQueueIds :
           /\ others[o].state = "none"
           /\ others' = [others EXCEPT ![o] = [state |-> "live", tracker |-> 0]]
    /\ UNCHANGED <<qvars, last, queue_lock_, pc, call, unlocks, snap, rounds, history>>

\* An append in another queue: tracker_->Consume(bytes) charges the child
\* and the parent.
OtherQueueAppend ==
    /\ \E o \in OtherQueueIds, bytes \in 1..MaxSize :
           /\ others[o].state = "live"
           /\ SumChildConsumption(OtherQueueIds) + bytes <= MaxOther
           /\ others' = [others EXCEPT ![o].tracker = @ + bytes]
           /\ parent_tracker_' = parent_tracker_ + bytes
    /\ UNCHANGED <<state_, watermarks_, messages_, metrics_, tracker_, last,
                   queue_lock_, pc, call, unlocks, snap, rounds, history>>

\* A trim in another queue: tracker_->Release(bytes_to_decrement) for an
\* entry it erases.
OtherQueueTrim ==
    /\ \E o \in OtherQueueIds, bytes_to_decrement \in 1..MaxSize :
           /\ others[o].state = "live"
           /\ bytes_to_decrement <= others[o].tracker
           /\ others' = [others EXCEPT ![o].tracker = @ - bytes_to_decrement]
           /\ parent_tracker_' = parent_tracker_ - bytes_to_decrement
    /\ UNCHANGED <<state_, watermarks_, messages_, metrics_, tracker_, last,
                   queue_lock_, pc, call, unlocks, snap, rounds, history>>

\* The destructor: Close(), then the members go, the buffer and tracker_
\* among them; nothing is released to the parent.
DestroyQueue ==
    /\ \E o \in OtherQueueIds :
           /\ others[o].state = "live"
           /\ others' = [others EXCEPT ![o].state = "destroyed"]
    /\ UNCHANGED <<qvars, last, queue_lock_, pc, call, unlocks, snap, rounds, history>>

\* Appends to this queue, of operations nobody or everybody has acked (the
\* latter can be trimmed).
ThisQueueAppend ==
    /\ Running
    /\ \E status \in {t \in Trackers : t.acks \in {{}, Peers}} :
           AppendOperationBody(status, FALSE)
    /\ UNCHANGED tvars

NextQueues ==
    \/ ConstructQueue
    \/ OtherQueueAppend
    \/ OtherQueueTrim
    \/ DestroyQueue
    \/ ThisQueueAppend
    \/ Return

SpecQueues == Init /\ [][NextQueues]_vars

---------------------------------------------------------------------------
(* SpecQuorums: operations of quorums of every size from the majority to   *)
(* all peers (a quorum is never smaller than its majority, so IsAllDone()   *)
(* implies IsDone()).  In a quorum of Majority peers the ack that makes the *)
(* tracker IsDone() makes it IsAllDone() at once.                           *)

QuorumOperations ==
    {[t EXCEPT !.total_peers = n] :
        t \in {x \in Trackers : SpaceUsed(x) = 1}, n \in Majority..NumQuorumPeers}

AppendQuorumOperation ==
    /\ Running
    /\ \E status \in QuorumOperations : AppendOperationBody(status, FALSE)
    /\ UNCHANGED tvars

NextQuorums ==
    \/ TrackPeer
    \/ UntrackPeer
    \/ AppendQuorumOperation
    \/ ResponseFromPeer
    \/ Return

SpecQuorums == Init /\ [][NextQuorums]_vars

---------------------------------------------------------------------------
(* SpecPeers: both peers may be tracked at once, and a peer's proxy may     *)
(* build its next request, in the request object of the previous one,       *)
(* before anything else is called.                                          *)

TrackPeerAny ==
    /\ Running
    /\ \E uuid \in Peers, initial_watermark \in OpIds :
           TrackPeerCall(uuid, initial_watermark, FALSE)
    /\ UNCHANGED tvars

\* The request that has just been built is handed to RequestForPeer again,
\* for the same peer, with the operations of the last batch still in it.
RequestForPeerAgain ==
    /\ last.op = "RequestForPeer"
    /\ last.status = "OK"
    /\ \E max_batch \in 1..MaxBatch :
           RequestForPeerBody(last.out.uuid, FALSE, max_batch, last.out.ops)
    /\ UNCHANGED tvars

NextPeers ==
    \/ TrackPeerAny
    \/ UntrackPeer
    \/ AppendNewOperation
    \/ RequestForPeer
    \/ RequestForPeerAgain
    \/ ResponseFromPeer
    \/ Return

SpecPeers == Init /\ [][NextPeers]_vars

---------------------------------------------------------------------------
(* Properties of AppendOperation. *)

RECURSIVE SumSpaceUsed(_)
SumSpaceUsed(m) ==
    IF DOMAIN m = {} THEN 0
    ELSE LET k == CHOOSE x \in DOMAIN m : TRUE
         IN  SpaceUsed(m[k]) + SumSpaceUsed(MapErase(m, k))

\* The call that has just returned is an AppendOperation that got past its
\* CHECKs, with the given status.
AppendReturned(status) == last.op = "AppendOperation" /\ last.status = status

C3_FailedAppendUnchanged ==
    [][(last'.op = "AppendOperation" /\ last'.status = "ServiceUnavailable")
           => UNCHANGED qvars]_vars

\* C3 amended: an AppendOperation that returns ServiceUnavailable does not add
\* the operation and leaves the state, the watermarks and every remaining
\* tracker as they were; it may have erased entries, all of them all-done and
\* below every remaining entry, and the gauges and both consumptions went
\* down by exactly the erased entries.
C3_FailedAppendOnlyTrims ==
    [][(last'.op = "AppendOperation" /\ last'.status = "ServiceUnavailable") =>
           LET erased == DOMAIN messages_ \ DOMAIN messages_'
               bytes  == SumSpaceUsed([id \in erased |-> messages_[id]])
           IN  /\ UNCHANGED <<state_, watermarks_>>
               /\ DOMAIN messages_' \subseteq DOMAIN messages_
               /\ \A id \in DOMAIN messages_' : messages_'[id] = messages_[id]
               /\ \A id \in erased :
                      /\ IsAllDone(messages_[id])
                      /\ \A k \in DOMAIN messages_' : OpIdLess(id, k)
               /\ metrics_' =
                      [metrics_ EXCEPT
                          !.total_num_ops = @ - Cardinality(erased),
                          !.num_all_done_ops = @ - Cardinality(erased),
                          !.queue_size_bytes = @ - bytes]
               /\ tracker_' = tracker_ - bytes
               /\ parent_tracker_' = parent_tracker_ - bytes]_vars

\* A failed append that erased the all-done head and left the entry behind it.
C3_Witness ==
    /\ AppendReturned("ServiceUnavailable")
    /\ last.out.trimmed
    /\ DOMAIN messages_ # {}

\* C4: an entry leaves the buffer only in an AppendOperation, only as part of
\* a head prefix (in OpId order) whose entries are all IsAllDone(); after an
\* append the buffer is the rest of the previous buffer, unchanged, plus at
\* most the new entry.
C4_ReclaimSafety ==
    [][LET s == SortedIds(DOMAIN messages_)
       IN  IF last'.op = "AppendOperation" /\ last'.status # "Abort"
           THEN \E k \in 0..Len(s) :
                    LET erased == {s[i] : i \in 1..k}
                        kept   == DOMAIN messages_ \ erased
                    IN  /\ \A id \in erased : IsAllDone(messages_[id])
                        /\ kept \subseteq DOMAIN messages_'
                        /\ \A id \in kept : messages_'[id] = messages_[id]
                        /\ DOMAIN messages_' \ kept \subseteq {last'.out.id}
           ELSE DOMAIN messages_' = DOMAIN messages_]_vars

\* An append that erased the head and kept the entry behind it.
C4_Witness ==
    /\ AppendReturned("OK")
    /\ last.out.trimmed
    /\ Cardinality(DOMAIN messages_) = 2

\* C5: queue_size_bytes is the sum of the sizes of the entries in the buffer
\* and is the child tracker's consumption.
C5_ByteAccounting ==
    /\ metrics_.queue_size_bytes = SumSpaceUsed(messages_)
    /\ metrics_.queue_size_bytes = tracker_

\* An append has failed after trimming part of a buffer that is not empty and
\* the parent also carries the other queues' bytes.
C5_Witness ==
    /\ AppendReturned("ServiceUnavailable")
    /\ last.out.trimmed
    /\ tracker_ > 0
    /\ parent_tracker_ > tracker_

\* C6: total_num_ops is the sum of the three buckets.
C6_BucketPartition ==
    metrics_.total_num_ops = metrics_.num_all_done_ops
                             + metrics_.num_majority_done_ops
                             + metrics_.num_in_progress_ops

\* A response has returned with one entry in each of two buckets.
C6_Witness ==
    /\ last.op = "ResponseFromPeer"
    /\ last.status = "OK"
    /\ metrics_.num_all_done_ops = 1
    /\ metrics_.num_majority_done_ops = 1

C8_CommitAdmission ==
    (last.op = "AppendOperation" /\ last.status # "Abort"
         /\ last.out.kind = "COMMIT") =>
        /\ last.status = "OK"
        /\ last.out.id \in DOMAIN messages_
        /\ messages_[last.out.id].kind = "COMMIT"
        /\ SpaceUsed(messages_[last.out.id]) = last.out.size

\* A COMMIT admitted on an open queue after the hard limits were consulted
\* and found violated.
C8_Witness ==
    /\ AppendReturned("OK")
    /\ state_ = "kQueueOpen"
    /\ last.out.kind = "COMMIT"
    /\ last.out.checked
    /\ (tracker_ > LocalHard \/ parent_tracker_ > GlobalHard)

---------------------------------------------------------------------------
(* Properties of RequestForPeer. *)

RequestReturned == last.op = "RequestForPeer" /\ last.status = "OK"

\* The entries above the peer's received watermark, in ascending OpId order.
Above(uuid) ==
    SortedIds({id \in DOMAIN messages_ : OpIdLess(watermarks_[uuid].received, id)})

\* The serialized size of a batch of the given entries.
BatchBytes(ops) ==
    SumSpaceUsed([id \in {ops[i] : i \in 1..Len(ops)} |-> messages_[id]])

\* C9: RequestForPeer attaches at least one operation whenever the buffer
\* holds an entry above the peer's received watermark, whatever the cap.
C9_SingleOpOverflow ==
    RequestReturned =>
        (Above(last.out.uuid) # <<>> => Len(last.out.ops) >= 1)

\* A batch of one operation that is larger than the cap.
C9_Witness ==
    /\ RequestReturned
    /\ Len(last.out.ops) = 1
    /\ BatchBytes(last.out.ops) > last.out.max_batch

\* C10: the attached operations are the first entries above the peer's
\* received watermark, in ascending order with none skipped; the batch
\* exceeds the cap only if it holds exactly one operation; and if entries
\* above the watermark are left out, the next one would have exceeded the cap.
C10_BatchComposition ==
    RequestReturned =>
        LET ops   == last.out.ops
            above == Above(last.out.uuid)
            n     == Len(ops)
        IN  /\ n <= Len(above)
            /\ ops = SubSeq(above, 1, n)
            /\ BatchBytes(ops) > last.out.max_batch => n = 1
            /\ n < Len(above) =>
                   BatchBytes(SubSeq(above, 1, n + 1)) > last.out.max_batch

\* A batch within the cap that stops before the end of the buffer.
C10_Witness ==
    /\ RequestReturned
    /\ Len(last.out.ops) = 1
    /\ Len(Above(last.out.uuid)) = 2
    /\ BatchBytes(last.out.ops) <= last.out.max_batch

---------------------------------------------------------------------------
(* Properties of the locking, under SpecThreads. *)

\* The thread is between taking queue_lock_ and the end of its reads and
\* writes of the queue's fields.
InCriticalSection(t) == pc[t] \in {"body", "insert", "unlock", "dump", "tostring"}

\* C2: at most one thread at a time is inside the critical section of a
\* public method, and every call that has returned has released queue_lock_
\* exactly once.
C2_MutualExclusion ==
    /\ \A t1, t2 \in Threads :
           InCriticalSection(t1) /\ InCriticalSection(t2) => t1 = t2
    /\ \A t \in Threads :
           pc[t] = "idle" /\ call[t].op # "none" => unlocks[t] = 1

---------------------------------------------------------------------------
(* Properties of ResponseFromPeer, TrackPeer and Close. *)

\* C14: a ResponseFromPeer on a closed queue, or from a peer that is not
\* tracked, returns with more_pending false and leaves the state, the
\* watermarks, the buffer, the gauges and both consumptions as they were.
C14_DisregardedResponse ==
    [][(/\ last'.op = "ResponseFromPeer"
        /\ (state_ = "kQueueClosed" \/ last'.out.uuid \notin DOMAIN watermarks_))
           => /\ last'.status = "OK"
              /\ last'.out.more_pending = FALSE
              /\ UNCHANGED qvars]_vars

\* A response disregarded for a peer that is tracked, on a closed queue that
\* still buffers operations.
C14_Witness ==
    /\ last.op = "ResponseFromPeer"
    /\ last.status = "OK"
    /\ last.out.disregarded
    /\ state_ = "kQueueClosed"
    /\ last.out.uuid \in DOMAIN watermarks_
    /\ DOMAIN messages_ # {}

\* C15 as stated: TrackPeer for a uuid that is already tracked returns an
\* already_tracked error and leaves the record and all other state unchanged.
C15_DuplicateTrackingReturnsError ==
    [][(last'.op = "TrackPeer" /\ last'.out.uuid \in DOMAIN watermarks_)
           => /\ last'.status = "AlreadyTracked"
              /\ UNCHANGED qvars]_vars

\* C15 amended: TrackPeer for a uuid that is already tracked fails the CHECK
\* of InsertOrDie, which ends the process, with the record and all other
\* state as they were; a TrackPeer that returns, returns OK.
C15_DuplicateTrackingAborts ==
    [][last'.op = "TrackPeer" =>
           /\ last'.status \in {"OK", "Abort"}
           /\ last'.out.uuid \in DOMAIN watermarks_
                  => (last'.status = "Abort" /\ UNCHANGED qvars)]_vars

\* A TrackPeer of a tracked peer on an open queue, with another initial
\* watermark than the one on record.
C15_Witness ==
    /\ last.op = "TrackPeer"
    /\ last.status = "Abort"
    /\ state_ = "kQueueOpen"
    /\ last.out.uuid \in DOMAIN watermarks_
    /\ watermarks_[last.out.uuid].received # MinimumOpId

\* C16: Close sets the state to kQueueClosed and empties the watermarks map
\* without removing an entry of the buffer; once the queue is closed it stays
\* closed, no AppendOperation adds an entry or charges memory, and no TrackPeer
\* or ResponseFromPeer creates or changes a watermark record or acks a tracker.
C16_ClosedIsFinal ==
    [][/\ last'.op = "Close" =>
              /\ state_' = "kQueueClosed"
              /\ watermarks_' = EmptyMap
              /\ messages_' = messages_
       /\ state_ = "kQueueClosed" =>
              /\ state_' = "kQueueClosed"
              /\ last'.op \in {"AppendOperation", "TrackPeer", "ResponseFromPeer"}
                     => UNCHANGED <<watermarks_, messages_, metrics_, tracker_>>]_vars

---------------------------------------------------------------------------
(* Properties of the watermark records, under SpecReports. *)

\* The response that has just returned was processed (not disregarded).
ResponseProcessed(l) ==
    l.op = "ResponseFromPeer" /\ l.status = "OK" /\ ~l.out.disregarded

\* received >= replicated and received >= safe_commit.
WellFormed(w) ==
    ~OpIdLess(w.received, w.replicated) /\ ~OpIdLess(w.received, w.safe_commit)

\* C11: a second ResponseFromPeer with the same peer and the same triple,
\* right after the first, returns the same more_pending and leaves the
\* gauges, the trackers' acks and the peer's record as the first left them.
C11_IdempotentAck ==
    [][(ResponseProcessed(last) /\ last'.op = "ResponseFromPeer") =>
           /\ last'.status = "OK"
           /\ last'.out.more_pending = last.out.more_pending
           /\ UNCHANGED <<watermarks_, messages_, metrics_>>]_vars

\* C12 as stated: no stored watermark of a tracked peer goes down in a step.
C12_WatermarkMonotonicity ==
    [][\A uuid \in DOMAIN watermarks_ \cap DOMAIN watermarks_' :
           \A w \in {"received", "replicated", "safe_commit"} :
               ~OpIdLess(watermarks_'[uuid][w], watermarks_[uuid][w])]_vars

\* C12 amended: a ResponseFromPeer that is processed overwrites the peer's
\* record with the reported triple, so a stored watermark goes down exactly
\* when the reported one is below it; no other step changes the record of a
\* peer that stays tracked.
C12_RecordIsLastReport ==
    [][\A uuid \in DOMAIN watermarks_ \cap DOMAIN watermarks_' :
           IF ResponseProcessed(last') /\ last'.out.uuid = uuid
           THEN /\ watermarks_'[uuid] = last'.out.new_status
                /\ \A w \in {"received", "replicated", "safe_commit"} :
                       OpIdLess(watermarks_'[uuid][w], watermarks_[uuid][w])
                           <=> OpIdLess(last'.out.new_status[w], watermarks_[uuid][w])
           ELSE watermarks_'[uuid] = watermarks_[uuid]]_vars

\* A processed response has left the peer's replicated watermark below an
\* operation the peer had acked.
C12_Witness ==
    /\ ResponseProcessed(last)
    /\ \E id \in DOMAIN messages_ :
           /\ messages_[id].kind = "REPLICATE"
           /\ last.out.uuid \in messages_[id].acks
           /\ OpIdLess(watermarks_[last.out.uuid].replicated, id)

\* C13 as stated: every tracked peer's record has received >= replicated and
\* received >= safe_commit.
C13_RecordInvariant ==
    \A uuid \in DOMAIN watermarks_ : WellFormed(watermarks_[uuid])

\* C13 amended: TrackPeer creates a record whose three watermarks are equal;
\* after a processed ResponseFromPeer the record satisfies the invariant
\* exactly when the reported triple does; any other step keeps it as it is.
C13_RecordInvariantWhenReported ==
    [][\A uuid \in DOMAIN watermarks_' :
           IF last'.op = "TrackPeer" /\ last'.status = "OK" /\ last'.out.uuid = uuid
           THEN /\ watermarks_'[uuid].received = watermarks_'[uuid].replicated
                /\ watermarks_'[uuid].received = watermarks_'[uuid].safe_commit
                /\ WellFormed(watermarks_'[uuid])
           ELSE IF ResponseProcessed(last') /\ last'.out.uuid = uuid
           THEN WellFormed(watermarks_'[uuid]) <=> WellFormed(last'.out.new_status)
           ELSE /\ uuid \in DOMAIN watermarks_
                /\ WellFormed(watermarks_'[uuid]) <=> WellFormed(watermarks_[uuid])]_vars

\* A processed response has stored a record whose received watermark is below
\* its replicated watermark.
C13_Witness ==
    /\ ResponseProcessed(last)
    /\ OpIdLess(watermarks_[last.out.uuid].received,
                watermarks_[last.out.uuid].replicated)

---------------------------------------------------------------------------
(* Properties of the limits and of trimming. *)

\* C18: whenever an AppendOperation has returned, the queue's consumption is
\* at most the per-tablet hard limit: entries were discarded down to it, acked
\* or not.
C18_HardLimitEnforced ==
    (last.op = "AppendOperation" /\ last.status # "Abort")
        => tracker_ <= LocalHard

---------------------------------------------------------------------------
(* Properties of the snapshots, under SpecThreads. *)

\* C17: the gauges a ToString reads are those of a state that lies between
\* two public operations, where queue_size_bytes is the size of the buffered
\* operations and total_num_ops their number; they never show an append that
\* has charged its bytes and not yet inserted its operation.
C17_ConsistentSnapshots ==
    [][\A t \in Threads :
           (pc[t] = "tostring" /\ pc'[t] = "return") =>
               /\ snap'[t].metrics.queue_size_bytes = SumSpaceUsed(messages_)
               /\ snap'[t].metrics.total_num_ops = Cardinality(DOMAIN messages_)]_vars

---------------------------------------------------------------------------
(* Properties of the rounds, under SpecRounds. *)

\* C20: once the rounds have started, the operations sent are at every
\* moment the first of the buffered operations above the peer's initial
\* watermark, in ascending order and each once; and in the end all of them
\* have been sent and ResponseFromPeer has returned more_pending false.
C20_ForwardProgress ==
    /\ [](rounds.phase # "setup" =>
              /\ Len(rounds.sent) <= Len(rounds.goal)
              /\ rounds.sent = SubSeq(rounds.goal, 1, Len(rounds.sent)))
    /\ (rounds.phase = "request") ~>
           (/\ rounds.phase = "done"
            /\ rounds.sent = rounds.goal
            /\ last.op = "ResponseFromPeer"
            /\ last.status = "OK"
            /\ ~last.out.more_pending)

\* The rounds have ended after sending two operations one by one, each of
\* them larger than the cap.
C20_Witness ==
    /\ rounds.phase = "done"
    /\ Len(rounds.sent) = 2
    /\ \A i \in 1..2 : ByteSize(messages_[rounds.sent[i]]) > rounds.max_batch

---------------------------------------------------------------------------
(* Properties of the shared parent tracker, under SpecQueues. *)

---------------------------------------------------------------------------
(* Properties of the gauges, under SpecQuorums. *)

\* The number of buffered entries whose tracker satisfies P.
AllDoneIds(m)      == {id \in DOMAIN m : IsAllDone(m[id])}
MajorityDoneIds(m) == {id \in DOMAIN m : IsDone(m[id]) /\ ~IsAllDone(m[id])}
InProgressIds(m)   == {id \in DOMAIN m : ~IsDone(m[id])}

---------------------------------------------------------------------------
(* Properties of the order of the buffer. *)

\* a is before b: lower term, or the same term and lower index.
Ascending(a, b) == a.term < b.term \/ (a.term = b.term /\ a.index < b.index)

StrictlyAscending(s) == \A i, j \in 1..Len(s) : i < j => Ascending(s[i], s[j])

\* C23: the buffer holds one entry per OpId, each under the OpId of its own
\* operation; iterating it yields every entry once, in strictly ascending
\* (term, then index) order; and so do the operations RequestForPeer
\* attaches.
C23_Ordering ==
    LET s == SortedIds(DOMAIN messages_)
    IN  /\ \A id \in DOMAIN messages_ : messages_[id].id = id
        /\ Len(s) = Cardinality(DOMAIN messages_)
        /\ {s[i] : i \in 1..Len(s)} = DOMAIN messages_
        /\ StrictlyAscending(s)
        /\ RequestReturned => StrictlyAscending(last.out.ops)

\* An append has just added an operation whose OpId is below that of an
\* operation appended before it.
C23_Witness ==
    /\ AppendReturned("OK")
    /\ last.out.id \in DOMAIN messages_
    /\ \E id \in DOMAIN messages_ : Ascending(last.out.id, id)

---------------------------------------------------------------------------
(* Properties of GetOperationStatus. *)

\* C24: GetOperationStatus(op_id) returns OK, with the output pointing at the
\* tracker buffered under op_id, exactly when the buffer holds an entry with
\* that OpId; otherwise it returns NotFound and the output is what it was;
\* either way it leaves the queue as it was.
C24_StatusLookup ==
    [][last'.op = "GetOperationStatus" =>
           /\ UNCHANGED qvars
           /\ last'.status \in {"OK", "NotFound"}
           /\ last'.status = "OK" <=> last'.out.op_id \in DOMAIN messages_
           /\ last'.status = "OK" =>
                  /\ last'.out.status = <<messages_[last'.out.op_id]>>
                  /\ last'.out.status[1].id = last'.out.op_id
           /\ last'.status = "NotFound" => last'.out.status = last'.out.before]_vars

\* A lookup of an OpId that is not buffered, by a caller whose output still
\* holds a tracker, while another operation is buffered.
C24_Witness ==
    /\ last.op = "GetOperationStatus"
    /\ last.status = "NotFound"
    /\ last.out.before # <<>>
    /\ DOMAIN messages_ # {}

---------------------------------------------------------------------------
(* Properties of ResponseFromPeer's results, under SpecReports. *)

\* The step is a ResponseFromPeer for a tracked peer on an open queue.
ResponseOfTrackedPeer ==
    /\ last'.op = "ResponseFromPeer"
    /\ state_ = "kQueueOpen"
    /\ last'.out.uuid \in DOMAIN watermarks_

\* C25: a ResponseFromPeer for a tracked peer on an open queue returns, and
\* returns more_pending true exactly when the buffer holds an entry whose
\* OpId is above the reported received watermark, whatever triple is reported.
C25_MorePending ==
    [][ResponseOfTrackedPeer =>
           /\ last'.status = "OK"
           /\ last'.out.more_pending <=>
                  \E id \in DOMAIN messages_' :
                      OpIdLess(last'.out.new_status.received, id)]_vars

\* The entries the ack rule names: at or below the reported received
\* watermark, and above the stored and at or below the reported safe_commit
\* (COMMIT) or replicated (REPLICATE) watermark.
AckRule(ost, current, new) ==
    /\ ~OpIdLess(new.received, ost.id)
    /\ \/ /\ ost.kind = "COMMIT"
          /\ OpIdLess(current.safe_commit, ost.id)
          /\ ~OpIdLess(new.safe_commit, ost.id)
       \/ /\ ost.kind = "REPLICATE"
          /\ OpIdLess(current.replicated, ost.id)
          /\ ~OpIdLess(new.replicated, ost.id)

\* C26: a ResponseFromPeer for a tracked peer on an open queue returns with
\* the peer acked on exactly the buffered entries the ack rule names, every
\* other tracker as it was, and the peer's record equal to the reported
\* triple.
C26_AckRule ==
    [][ResponseOfTrackedPeer =>
           /\ last'.status = "OK"
           /\ DOMAIN messages_' = DOMAIN messages_
           /\ \A id \in DOMAIN messages_ :
                  messages_'[id] =
                      IF AckRule(messages_[id], watermarks_[last'.out.uuid],
                                 last'.out.new_status)
                      THEN AckPeer(messages_[id], last'.out.uuid)
                      ELSE messages_[id]
           /\ watermarks_'[last'.out.uuid] = last'.out.new_status]_vars

---------------------------------------------------------------------------
(* Properties of the extent of trimming. *)

\* The step is an AppendOperation that got past its CHECKs.
AppendStep ==
    last'.op = "AppendOperation" /\ last'.status \in {"OK", "ServiceUnavailable"}

\* The bytes of the first j entries of the buffer.
HeadBytes(j) ==
    LET s == SortedIds(DOMAIN messages_)
    IN  SumSpaceUsed([id \in {s[i] : i \in 1..j} |-> messages_[id]])

\* The operation of the step does not fit the child's spare capacity once
\* the first j entries are gone.
DoesNotFitAfter(j) ==
    LET child == tracker_ - HeadBytes(j)
        spare == IF LocalSoft > child THEN LocalSoft - child ELSE 0
    IN  last'.out.size > spare

\* The step erases entries only if a soft limit was exceeded when it
\* started; what it erases is a head prefix of all-done entries, the shortest
\* after which the operation fits the child's spare capacity, or one that
\* ends at the first entry that is not all-done or at the end of the buffer.
TrimExtent ==
    LET s == SortedIds(DOMAIN messages_)
        \* an entry under the OpId of the operation was erased before the
        \* operation went in, or the insertion would have failed its CHECK
        erased == {id \in DOMAIN messages_ :
                      \/ id \notin DOMAIN messages_'
                      \/ id = last'.out.id /\ last'.status = "OK"}
        k == Cardinality(erased)
        soft == tracker_ > LocalSoft \/ parent_tracker_ > GlobalSoft
    IN  /\ erased = {s[i] : i \in 1..k}
        /\ \A id \in erased : IsAllDone(messages_[id])
        /\ ~soft => k = 0
        /\ \A j \in 0..(k - 1) : DoesNotFitAfter(j)
        /\ soft => \/ ~DoesNotFitAfter(k)
                   \/ k = Len(s)
                   \/ ~IsAllDone(messages_[s[k + 1]])

EveryEntryAllDone == \A id \in DOMAIN messages_ : IsAllDone(messages_[id])

Max(a, b) == IF a > b THEN a ELSE b

\* C27 as stated: AppendOperation trims to that extent, and if every buffered
\* entry is all-done, after an append that returns OK the child's consumption
\* is at most max(local soft limit, size of the new operation).
C27_TrimExtentAndBound ==
    [][AppendStep =>
           /\ TrimExtent
           /\ (EveryEntryAllDone /\ last'.status = "OK")
                  => tracker_' <= Max(LocalSoft, last'.out.size)]_vars

\* C27 amended: AppendOperation trims to that extent; after an append that
\* returns OK, if every buffered entry was all-done the child's consumption is
\* at most max(local soft limit, size of the new operation) when a soft limit
\* was exceeded as the call started, and at most the local soft limit plus
\* the size of the new operation when none was.
C27_TrimExtentAndSlack ==
    [][AppendStep =>
           /\ TrimExtent
           /\ (EveryEntryAllDone /\ last'.status = "OK") =>
                  IF tracker_ > LocalSoft \/ parent_tracker_ > GlobalSoft
                  THEN tracker_' <= Max(LocalSoft, last'.out.size)
                  ELSE tracker_' <= LocalSoft + last'.out.size]_vars

\* An append has erased the head and stopped before another all-done entry,
\* because the operation then fitted.
C27_Witness ==
    /\ AppendReturned("OK")
    /\ last.out.trimmed
    /\ \E id \in DOMAIN messages_ :
           id # last.out.id /\ IsAllDone(messages_[id])

---------------------------------------------------------------------------
(* Properties of UntrackPeer and RequestForPeer, under SpecPeers. *)

\* C28: UntrackPeer(uuid) removes the record of uuid if there is one and
\* nothing else: the other peers' records, the buffer with every tracker's
\* acks (and so its IsDone() and IsAllDone()), the gauges, both consumptions
\* and the state are as they were.
C28_UntrackPeerFrame ==
    [][last'.op = "UntrackPeer" =>
           /\ last'.status = "OK"
           /\ DOMAIN watermarks_' = DOMAIN watermarks_ \ {last'.out.uuid}
           /\ \A uuid \in DOMAIN watermarks_' : watermarks_'[uuid] = watermarks_[uuid]
           /\ last'.out.uuid \notin DOMAIN watermarks_ => watermarks_' = watermarks_
           /\ messages_' = messages_
           /\ \A id \in DOMAIN messages_ :
                  /\ IsDone(messages_'[id]) = IsDone(messages_[id])
                  /\ IsAllDone(messages_'[id]) = IsAllDone(messages_[id])
           /\ UNCHANGED <<state_, metrics_, tracker_, parent_tracker_>>]_vars

\* A peer has been untracked while the other peer is tracked and the buffer
\* holds an operation the untracked peer has acked.
C28_Witness ==
    /\ last.op = "UntrackPeer"
    /\ last.out.uuid \notin DOMAIN watermarks_
    /\ DOMAIN watermarks_ # {}
    /\ \E id \in DOMAIN messages_ : last.out.uuid \in messages_[id].acks

\* C29: RequestForPeer leaves the watermarks, the buffer with its trackers,
\* the gauges, both consumptions and the state as they were; the batch holds
\* nothing of what the request held before; and a RequestForPeer right after
\* another for the same peer, with the same cap, produces the same batch.
C29_RequestReadOnly ==
    [][last'.op = "RequestForPeer" =>
           /\ UNCHANGED qvars
           /\ last'.status = "OK" =>
                  /\ Len(last'.out.ops) <= Len(Above(last'.out.uuid))
                  /\ (/\ last.op = "RequestForPeer"
                      /\ last.status = "OK"
                      /\ last.out.uuid = last'.out.uuid
                      /\ last.out.max_batch = last'.out.max_batch)
                         => last'.out.ops = last.out.ops]_vars

\* A request that held a batch of two operations has been rebuilt, and holds
\* the two again.
C29_Witness ==
    /\ RequestReturned
    /\ Len(last.out.request) = 2
    /\ last.out.ops = last.out.request

\* C30: a ResponseFromPeer for a tracked peer on an open queue returns
\* whatever triple is reported; when the reported received watermark is below
\* the peer's stored replicated and safe_commit watermarks it acks nothing
\* and leaves the reported triple as the peer's record.
C30_RegressingResponse ==
    [][ResponseOfTrackedPeer =>
           /\ last'.status = "OK"
           /\ LET current == watermarks_[last'.out.uuid]
                  new == last'.out.new_status
              IN  (/\ OpIdLess(new.received, current.replicated)
                   /\ OpIdLess(new.received, current.safe_commit))
                      => /\ messages_' = messages_
                         /\ metrics_' = metrics_
                         /\ watermarks_'[last'.out.uuid] = new]_vars

---------------------------------------------------------------------------
(* SpecAcks: peers are tracked, operations are appended in ascending OpId   *)
(* order and no response lowers a watermark of its peer.  history keeps,    *)
(* for each tracked peer, the watermark it was tracked at and whether every *)
(* response it made since was one a follower can make; and the OpId of the  *)
(* newest operation appended.                                               *)

\* No watermark of the response is below the one the record holds.
NonRegressing(current_status, new_status) ==
    \A w \in DOMAIN new_status : ~OpIdLess(new_status[w], current_status[w])

\* The response claims no replication or commit of an operation the leader
\* has not appended yet.
WithinAppended(new_status) ==
    /\ ~OpIdLess(history.newest, new_status.replicated)
    /\ ~OpIdLess(history.newest, new_status.safe_commit)

TrackPeerAt ==
    /\ Running
    /\ \E uuid \in Peers, initial_watermark \in OpIds :
           /\ TrackPeerBody(uuid, initial_watermark, FALSE)
           /\ history' =
                  IF uuid \in DOMAIN watermarks_ THEN history
                  ELSE [history EXCEPT
                           !.initial = MapPut(@, uuid, initial_watermark),
                           !.sound = MapPut(@, uuid, TRUE)]
    /\ UNCHANGED <<queue_lock_, pc, call, unlocks, snap, rounds, others>>

AppendAscending ==
    /\ Running
    /\ \E status \in NewOperations :
           /\ OpIdLess(history.newest, status.id)
           /\ AppendOperationBody(status, FALSE)
           /\ history' =
                  IF status.id \in DOMAIN messages_'
                  THEN [history EXCEPT !.newest = status.id] ELSE history
    /\ UNCHANGED <<queue_lock_, pc, call, unlocks, snap, rounds, others>>

ResponseNonRegressing ==
    /\ Running
    /\ \E uuid \in Peers, new_status \in Statuses, wrap \in 0..(MaxOps + 1) :
           /\ uuid \in DOMAIN watermarks_ =>
                  NonRegressing(watermarks_[uuid], new_status)
           /\ ResponseFromPeerBody(uuid, new_status, wrap)
           /\ history' =
                  IF Disregarded(uuid) THEN history
                  ELSE [history EXCEPT
                           !.sound[uuid] = /\ @
                                           /\ WellFormed(new_status)
                                           /\ WithinAppended(new_status)]
    /\ UNCHANGED <<queue_lock_, pc, call, unlocks, snap, rounds, others>>

NextAcks ==
    \/ TrackPeerAt
    \/ AppendAscending
    \/ ResponseNonRegressing
    \/ Return

SpecAcks == Init /\ [][NextAcks]_vars

\* The entry's id is above the watermark the peer was tracked at and at or
\* below the watermark of its kind in the peer's record.
PassedOver(uuid, id) ==
    /\ OpIdLess(history.initial[uuid], id)
    /\ IF messages_[id].kind = "REPLICATE"
       THEN ~OpIdLess(watermarks_[uuid].replicated, id)
       ELSE ~OpIdLess(watermarks_[uuid].safe_commit, id)

=============================================================================
